---- MODULE Spec2Model ----
(***************************************************************************)
(* ConfidentialProtocolEvm (src/src/fairblock-protocol-evm.js): the        *)
(* enablement state machine of one or two protocol instances, with the     *)
(* asynchronous calls on them split at their await points.                 *)
(***************************************************************************)
EXTENDS Integers, Sequences, FiniteSets, TLC

\* ------------------------------------------------------------------ bounds
\* Total number of method invocations explored in one behaviour.
MaxOps == 3

\* ------------------------------------------------------------ value spaces
Cores == {"A", "B"}
Slots == {"p", "q"}

AccountKinds == {"Signing", "ReadOnly"}
\* account._config.provider: absent, an RPC URL string, or an EIP-1193 object
ProviderDescriptors == {"none", "url", "injected"}

Tokens == {"0xAAA", "0xBBB"}
Recipients == {"0xR1"}

\* An amount is rep (the JavaScript type) and the value hi * 2^53 + lo.
NoAmount == [rep |-> "-", hi |-> 0, lo |-> 0]
Amounts ==
  { [rep |-> "number", hi |-> 0, lo |-> 100],
    [rep |-> "bigint", hi |-> 1, lo |-> 1] }

\* Balances the Backend may answer with (number, numeric string or bigint).
BackendAmounts ==
  { [rep |-> "string", hi |-> 0, lo |-> 100],
    [rep |-> "bigint", hi |-> 1, lo |-> 1] }

Hashes == {"0xdeadbeef", "0xfeedface"}
BackendErrors == {"BackendFailure1", "BackendFailure2"}

\* this._keys: undefined, or the object ensureAccount resolved to.
Undefined == [defined |-> FALSE, publicKey |-> "undefined", privateKey |-> "undefined"]
KeyPair(i) == [defined |-> TRUE, publicKey |-> "pk" \o i, privateKey |-> "sk" \o i]
\* What ensureAccount may resolve to: a key pair, or an absent value.
EnsureResults == {KeyPair("1"), KeyPair("2"), Undefined}

\* An account's address and raw signing key bytes (keyPair.privateKey); the
\* accounts are named after the instance that is bound to them.
Address(a) == IF a = "A" THEN "0xA11" ELSE "0xB22"
SigningKeyBytes(a) == IF a = "A" THEN <<10, 255>> ELSE <<1, 32>>

NoWallet == [key |-> <<>>, provider |-> "none"]
NoCall ==
  [method |-> "-", signer |-> NoWallet, address |-> "-", privateKey |-> "-",
   recipient |-> "-", token |-> "-", amount |-> NoAmount]
NoOutcome ==
  [status |-> "-", error |-> "-", publicKey |-> "-", privateKey |-> "-",
   hash |-> "-", amount |-> NoAmount]
Idle ==
  [op |-> "-", core |-> "A", pc |-> "idle", token |-> "-", amount |-> NoAmount,
   recipient |-> "-", wallet |-> NoWallet, walletError |-> "-", address |-> "-",
   bcall |-> NoCall, nBackend |-> 0, bret |-> NoOutcome, out |-> NoOutcome,
   \* history of the invocation: whether an enableConfidentiality of the
   \* instance was pending then, and the this._keys.privateKey that the gate
   \* of a confidential balance query found
   raced |-> FALSE, gate |-> "-"]

VARIABLES
  live,          \* the instances constructed in this run
  shared,        \* both instances were constructed over one account object
  acctKind,      \* per instance: the variant of this._account
  acctProvider,  \* per instance: this._account._config.provider
  provider,      \* per instance: this._provider
  keys,          \* per instance: this._keys
  calls,         \* per slot: the invocation running in it
  nOps,          \* invocations made so far
  nEnsure,       \* per instance: Backend.ensureAccount calls issued
  nEnableOk,     \* per instance: enableConfidentiality calls that resolved
  nEnableBad,    \* per instance: enable calls that rejected after ensureAccount
  ensured,       \* per instance: an ensureAccount resolved to a key pair
  lastEnable,    \* per instance: what the last completed enable returned
  recording      \* the run keeps the history of each invocation

vars ==
  <<live, shared, acctKind, acctProvider, provider, keys, calls, nOps, nEnsure,
    nEnableOk, nEnableBad, ensured, lastEnable, recording>>

\* ------------------------------------------------------------ pure helpers
\* this._account of an instance.
AccountOf(c) == IF shared THEN "A" ELSE c

HexDigits == <<"0","1","2","3","4","5","6","7","8","9","a","b","c","d","e","f">>

\* Buffer.from(privateKey).toString('hex'): two lower-case digits per byte.
RECURSIVE ToHex(_)
ToHex(bytes) ==
  IF bytes = <<>> THEN <<>>
  ELSE <<HexDigits[(Head(bytes) \div 16) + 1], HexDigits[(Head(bytes) % 16) + 1]>>
       \o ToHex(Tail(bytes))

\* BigInt(x) of an integral number, numeric string or bigint: the same
\* integer, as a bigint.
BigInt(x) == [rep |-> "bigint", hi |-> x.hi, lo |-> x.lo]

\* The constructor's provider binding for a provider descriptor.
ProviderBinding(desc) ==
  IF desc = "none" THEN "none"
  ELSE IF desc = "url" THEN "JsonRpcProvider" ELSE "BrowserProvider"

\* Mutant: the gate is missing.
EnabledAlways(c) == TRUE

\* The gate `if (!this._keys) throw`: passes when this._keys is truthy.
Enabled(c) == keys[c].defined

\* Mutant: a read-only account hands out a signing key like a signing one.
GetEthersWalletReadOnlySigner(c) ==
  IF provider[c] = "none"
    THEN [error |-> "NotConnected", wallet |-> NoWallet]
  ELSE [error |-> "-",
        wallet |-> [key |-> ToHex(SigningKeyBytes(AccountOf(c))),
                    provider |-> provider[c]]]

\* Mutant: _getEthersWallet does not check this._provider.
GetEthersWalletUnchecked(c) ==
  IF acctKind[c] = "ReadOnly"
    THEN [error |-> "TypeError", wallet |-> NoWallet]
  ELSE [error |-> "-",
        wallet |-> [key |-> ToHex(SigningKeyBytes(AccountOf(c))),
                    provider |-> provider[c]]]

\* _getEthersWallet: the signer, or the error it throws.
GetEthersWallet(c) ==
  IF provider[c] = "none"
    THEN [error |-> "NotConnected", wallet |-> NoWallet]
  ELSE IF acctKind[c] = "ReadOnly"
    \* keyPair is undefined on a read-only account: reading .privateKey throws
    THEN [error |-> "TypeError", wallet |-> NoWallet]
  ELSE [error |-> "-",
        wallet |-> [key |-> ToHex(SigningKeyBytes(AccountOf(c))),
                    provider |-> provider[c]]]

Rejected(err) == [NoOutcome EXCEPT !.status = "rejected", !.error = err]
ResolvedHash(h) == [NoOutcome EXCEPT !.status = "resolved", !.hash = h]
ResolvedAmount(a) == [NoOutcome EXCEPT !.status = "resolved", !.amount = a]
ResolvedKeys(k) ==
  [NoOutcome EXCEPT !.status = "resolved",
                    !.publicKey = k.publicKey, !.privateKey = k.privateKey]

SigningOps ==
  {"enableConfidentiality", "depositConfidential", "transferConfidential",
   "withdrawConfidential"}
TransactionOps ==
  {"depositConfidential", "transferConfidential", "withdrawConfidential"}
GatedOps == TransactionOps \cup {"getConfidentialBalance"}
BalanceOps == {"getConfidentialBalance", "getPublicBalance"}

\* Number(x): the nearest double, ties to even; doubles in [2^53, 2^54) are
\* the even integers.
ToNumber(x) ==
  [rep |-> "number", hi |-> x.hi,
   lo |-> IF x.hi = 0 \/ x.lo % 2 = 0 THEN x.lo
          ELSE IF ((x.lo - 1) \div 2) % 2 = 0 THEN x.lo - 1 ELSE x.lo + 1]

\* Mutant: the amount is converted with Number() on its way to the Backend.
SignerCallAsNumber(k) ==
  IF k.op = "enableConfidentiality"
    THEN [NoCall EXCEPT !.method = "ensureAccount", !.signer = k.wallet]
  ELSE IF k.op = "depositConfidential"
    THEN [NoCall EXCEPT !.method = "confidentialDeposit", !.signer = k.wallet,
                        !.token = k.token, !.amount = ToNumber(k.amount)]
  ELSE IF k.op = "transferConfidential"
    THEN [NoCall EXCEPT !.method = "confidentialTransfer", !.signer = k.wallet,
                        !.recipient = k.recipient, !.token = k.token,
                        !.amount = ToNumber(k.amount)]
  ELSE [NoCall EXCEPT !.method = "withdraw", !.signer = k.wallet,
                      !.token = k.token, !.amount = ToNumber(k.amount)]

\* The Backend call a method issues once its signer is available.
SignerCall(k) ==
  IF k.op = "enableConfidentiality"
    THEN [NoCall EXCEPT !.method = "ensureAccount", !.signer = k.wallet]
  ELSE IF k.op = "depositConfidential"
    THEN [NoCall EXCEPT !.method = "confidentialDeposit", !.signer = k.wallet,
                        !.token = k.token, !.amount = k.amount]
  ELSE IF k.op = "transferConfidential"
    THEN [NoCall EXCEPT !.method = "confidentialTransfer", !.signer = k.wallet,
                        !.recipient = k.recipient, !.token = k.token,
                        !.amount = k.amount]
  ELSE [NoCall EXCEPT !.method = "withdraw", !.signer = k.wallet,
                      !.token = k.token, !.amount = k.amount]

\* Mutant: the balance query hands the Backend the private key that its
\* gate found at invocation.
AddressCallGateKey(k) ==
  IF k.op = "getConfidentialBalance"
    THEN [NoCall EXCEPT !.method = "getConfidentialBalance",
                        !.address = k.address,
                        !.privateKey = k.gate,
                        !.token = k.token]
  ELSE [NoCall EXCEPT !.method = "getPublicBalance", !.address = k.address,
                      !.token = k.token]

\* Mutant: the balance query hands the Backend the public key.
AddressCallPublicKey(k) ==
  IF k.op = "getConfidentialBalance"
    THEN [NoCall EXCEPT !.method = "getConfidentialBalance",
                        !.address = k.address,
                        !.privateKey = keys[k.core].publicKey,
                        !.token = k.token]
  ELSE [NoCall EXCEPT !.method = "getPublicBalance", !.address = k.address,
                      !.token = k.token]

\* The Backend call a balance query issues once the address is available.
AddressCall(k) ==
  IF k.op = "getConfidentialBalance"
    THEN [NoCall EXCEPT !.method = "getConfidentialBalance",
                        !.address = k.address,
                        !.privateKey = keys[k.core].privateKey,
                        !.token = k.token]
  ELSE [NoCall EXCEPT !.method = "getPublicBalance", !.address = k.address,
                      !.token = k.token]

\* --------------------------------------------------------------- the state
TypeOK ==
  /\ live \subseteq Cores
  /\ shared \in BOOLEAN
  /\ acctKind \in [Cores -> AccountKinds]
  /\ acctProvider \in [Cores -> ProviderDescriptors]
  /\ provider \in [Cores -> {"none", "JsonRpcProvider", "BrowserProvider"}]
  /\ keys \in [Cores -> EnsureResults]
  /\ DOMAIN calls = Slots
  /\ nOps \in 0..MaxOps
  /\ recording \in BOOLEAN

\* The state right after `new ConfidentialProtocolEvm(account, config)` of
\* the instances in l, over any account variant and provider descriptor.
Constructed(l) ==
  /\ live = l
  /\ shared \in BOOLEAN
  /\ shared => l = Cores
  /\ acctKind \in [Cores -> AccountKinds]
  /\ acctProvider \in [Cores -> ProviderDescriptors]
  /\ shared => (acctKind["A"] = acctKind["B"] /\ acctProvider["A"] = acctProvider["B"])
  /\ \A c \in Cores \ l : acctKind[c] = "Signing" /\ acctProvider[c] = "none"
  /\ provider = [c \in Cores |-> ProviderBinding(acctProvider[c])]
  /\ keys = [c \in Cores |-> Undefined]
  /\ calls = [s \in Slots |-> Idle]
  /\ nOps = 0
  /\ nEnsure = [c \in Cores |-> 0]
  /\ nEnableOk = [c \in Cores |-> 0]
  /\ nEnableBad = [c \in Cores |-> 0]
  /\ ensured = [c \in Cores |-> FALSE]
  /\ lastEnable = [c \in Cores |-> Undefined]

Init == Constructed({"A"}) /\ recording = FALSE

\* ------------------------------------------------------------- invocations
CanInvoke(s, c) ==
  /\ c \in live
  /\ calls[s].pc \in {"idle", "done"}
  /\ nOps < MaxOps

Invoked(op, c) ==
  [Idle EXCEPT !.op = op, !.core = c,
               !.raced = /\ recording
                         /\ \E t \in Slots :
                              /\ calls[t].op = "enableConfidentiality"
                              /\ calls[t].core = c
                              /\ calls[t].pc \in {"awaitWallet", "awaitBackend"},
               !.gate = IF recording /\ op = "getConfidentialBalance"
                          THEN keys[c].privateKey ELSE "-"]

\* A method whose first await is `await this._getEthersWallet()`.
StartSigning(k, c) ==
  LET w == GetEthersWallet(c)
  IN [k EXCEPT !.pc = "awaitWallet", !.wallet = w.wallet, !.walletError = w.error]

\* Mutant: a call made while an enable is pending waits for it.
GateWaitsForEnable(k, c, rest) ==
  IF ~Enabled(c) /\ ~k.raced
    THEN [k EXCEPT !.pc = "done", !.out = Rejected("NotEnabled")]
    ELSE rest

\* Mutant: the signer is built, and its error thrown, ahead of the gate.
GateAfterSigner(k, c, rest) ==
  IF GetEthersWallet(c).error # "-"
    THEN [k EXCEPT !.pc = "done",
                   !.walletError = GetEthersWallet(c).error,
                   !.out = Rejected(GetEthersWallet(c).error)]
  ELSE IF ~Enabled(c)
    THEN [k EXCEPT !.pc = "done", !.wallet = GetEthersWallet(c).wallet,
                   !.out = Rejected("NotEnabled")]
    ELSE rest

\* A gated method: the NotEnabled throw, else the rest of the method.
Gate(k, c, rest) ==
  IF ~Enabled(c)
    THEN [k EXCEPT !.pc = "done", !.out = Rejected("NotEnabled")]
    ELSE rest

Ghosts == <<nEnsure, nEnableOk, nEnableBad, ensured, lastEnable>>
Instance == <<live, shared, acctKind, acctProvider, provider, recording>>

Start(s, k) ==
  /\ calls' = [calls EXCEPT ![s] = k]
  /\ nOps' = nOps + 1
  /\ UNCHANGED <<Instance, keys, Ghosts>>

\* Mutant: enable goes to the Backend whatever _getEthersWallet answered.
enableConfidentialityAnySigner(s, c) ==
  /\ CanInvoke(s, c)
  /\ Start(s, [Invoked("enableConfidentiality", c) EXCEPT
                 !.pc = "awaitWallet",
                 !.wallet = GetEthersWalletUnchecked(c).wallet])

enableConfidentiality(s, c) ==
  /\ CanInvoke(s, c)
  /\ Start(s, StartSigning(Invoked("enableConfidentiality", c), c))

depositConfidential(s, c, token, amount) ==
  /\ CanInvoke(s, c)
  /\ LET k == [Invoked("depositConfidential", c) EXCEPT
                 !.token = token, !.amount = amount]
     IN Start(s, Gate(k, c, StartSigning(k, c)))

transferConfidential(s, c, recipient, token, amount) ==
  /\ CanInvoke(s, c)
  /\ LET k == [Invoked("transferConfidential", c) EXCEPT
                 !.recipient = recipient, !.token = token, !.amount = amount]
     IN Start(s, Gate(k, c, StartSigning(k, c)))

withdrawConfidential(s, c, token, amount) ==
  /\ CanInvoke(s, c)
  /\ LET k == [Invoked("withdrawConfidential", c) EXCEPT
                 !.token = token, !.amount = amount]
     IN Start(s, Gate(k, c, StartSigning(k, c)))

\* Mutant: the balance query builds a signer like the signing methods.
getConfidentialBalanceWithSigner(s, c, token) ==
  /\ CanInvoke(s, c)
  /\ LET k == [Invoked("getConfidentialBalance", c) EXCEPT !.token = token]
         w == GetEthersWallet(c)
     IN Start(s, Gate(k, c, [k EXCEPT !.pc = "awaitAddress",
                                      !.wallet = w.wallet,
                                      !.walletError = w.error,
                                      !.address = Address(AccountOf(c))]))

getConfidentialBalance(s, c, token) ==
  /\ CanInvoke(s, c)
  /\ LET k == [Invoked("getConfidentialBalance", c) EXCEPT !.token = token]
     IN Start(s, Gate(k, c, [k EXCEPT !.pc = "awaitAddress",
                                      !.address = Address(AccountOf(c))]))

\* Mutant: getPublicBalance is gated like the confidential methods.
getPublicBalanceGated(s, c, token) ==
  /\ CanInvoke(s, c)
  /\ LET k == [Invoked("getPublicBalance", c) EXCEPT !.token = token]
     IN Start(s, Gate(k, c, [k EXCEPT !.pc = "awaitAddress",
                                      !.address = Address(AccountOf(c))]))

getPublicBalance(s, c, token) ==
  /\ CanInvoke(s, c)
  /\ LET k == [Invoked("getPublicBalance", c) EXCEPT !.token = token]
     IN Start(s, [k EXCEPT !.pc = "awaitAddress", !.address = Address(AccountOf(c))])

\* Mutant: getFee is gated and asks the Backend for the public balance.
getFeeFromBackend(s, c) ==
  /\ CanInvoke(s, c)
  /\ LET k == Invoked("getFee", c)
     IN Start(s, Gate(k, c, [k EXCEPT !.pc = "awaitAddress",
                                      !.address = Address(AccountOf(c))]))

getFee(s, c) ==
  /\ CanInvoke(s, c)
  /\ Start(s, [Invoked("getFee", c) EXCEPT
                 !.pc = "done",
                 !.out = ResolvedAmount([rep |-> "bigint", hi |-> 0, lo |-> 0])])

\* ----------------------------------------------------------- continuations
Finish(s, outcome) ==
  calls' = [calls EXCEPT ![s].pc = "done", ![s].out = outcome]

\* The awaited Backend call settles as bret and the method ends with outcome.
Settle(s, bret, outcome) ==
  calls' = [calls EXCEPT ![s].pc = "done", ![s].bret = bret, ![s].out = outcome]

\* What enableConfidentiality answers once ensureAccount resolved to r:
\* reading r.publicKey throws when r is absent.
EnableOutcome(r) == IF r.defined THEN ResolvedKeys(r) ELSE Rejected("TypeError")

\* Mutant: the Backend is called before the signer's error is looked at.
AfterWalletCallsFirst(s) ==
  LET k == calls[s] IN
  /\ k.pc = "awaitWallet"
  /\ calls' = [calls EXCEPT ![s].pc = "awaitBackend",
                            ![s].bcall = SignerCall(k),
                            ![s].nBackend = k.nBackend + 1]
  /\ nEnsure' = IF k.op = "enableConfidentiality"
                  THEN [nEnsure EXCEPT ![k.core] = @ + 1]
                  ELSE nEnsure
  /\ UNCHANGED <<Instance, keys, nOps, nEnableOk, nEnableBad, ensured, lastEnable>>

\* After `await this._getEthersWallet()`: its error rejects the method,
\* else the method calls the Backend with the signer.
AfterWallet(s) ==
  LET k == calls[s] IN
  /\ k.pc = "awaitWallet"
  /\ IF k.walletError # "-"
       THEN /\ Finish(s, Rejected(k.walletError))
            /\ UNCHANGED nEnsure
       ELSE /\ calls' = [calls EXCEPT ![s].pc = "awaitBackend",
                                      ![s].bcall = SignerCall(k),
                                      ![s].nBackend = k.nBackend + 1]
            /\ nEnsure' = IF k.op = "enableConfidentiality"
                            THEN [nEnsure EXCEPT ![k.core] = @ + 1]
                            ELSE nEnsure
  /\ UNCHANGED <<Instance, keys, nOps, nEnableOk, nEnableBad, ensured, lastEnable>>

\* After `await this._account.getAddress()`: the balance query calls the
\* Backend; reading this._keys.privateKey throws when this._keys is absent.
AfterAddress(s) ==
  LET k == calls[s] IN
  /\ k.pc = "awaitAddress"
  /\ IF k.op = "getConfidentialBalance" /\ ~keys[k.core].defined
       THEN Finish(s, Rejected("TypeError"))
       ELSE calls' = [calls EXCEPT ![s].pc = "awaitBackend",
                                   ![s].bcall = AddressCall(k),
                                   ![s].nBackend = k.nBackend + 1]
  /\ UNCHANGED <<Instance, keys, nOps, Ghosts>>

\* Mutant: of two overlapping enables the one invoked later wins: an enable
\* that completes after a later-invoked one leaves the stored keys alone.
EnsureAccountResolvesInvocationOrder(s, r) ==
  LET k == calls[s]
      overtaken == /\ ~k.raced
                   /\ \E t \in Slots \ {s} :
                        /\ calls[t].op = "enableConfidentiality"
                        /\ calls[t].core = k.core
                        /\ calls[t].raced
                        /\ calls[t].out.status = "resolved"
  IN
  /\ k.pc = "awaitBackend"
  /\ k.bcall.method = "ensureAccount"
  /\ keys' = [keys EXCEPT ![k.core] = IF overtaken THEN @ ELSE r]
  /\ Settle(s, ResolvedKeys(r), EnableOutcome(r))
  /\ IF r.defined
       THEN /\ nEnableOk' = [nEnableOk EXCEPT ![k.core] = @ + 1]
            /\ ensured' = [ensured EXCEPT ![k.core] = TRUE]
            /\ lastEnable' =
                 [lastEnable EXCEPT ![k.core] =
                    [defined |-> TRUE,
                     publicKey |-> EnableOutcome(r).publicKey,
                     privateKey |-> EnableOutcome(r).privateKey]]
            /\ UNCHANGED nEnableBad
       ELSE /\ nEnableBad' = [nEnableBad EXCEPT ![k.core] = @ + 1]
            /\ UNCHANGED <<nEnableOk, ensured, lastEnable>>
  /\ UNCHANGED <<Instance, nOps, nEnsure>>

\* Mutant: keys already stored are kept and returned (a cached enable).
EnsureAccountResolvesCached(s, r) ==
  LET k == calls[s]
      kept == IF keys[k.core].defined THEN keys[k.core] ELSE r
  IN
  /\ k.pc = "awaitBackend"
  /\ k.bcall.method = "ensureAccount"
  /\ keys' = [keys EXCEPT ![k.core] = kept]
  /\ Settle(s, ResolvedKeys(r), EnableOutcome(kept))
  /\ IF kept.defined
       THEN /\ nEnableOk' = [nEnableOk EXCEPT ![k.core] = @ + 1]
            /\ ensured' = [ensured EXCEPT ![k.core] = TRUE]
            /\ lastEnable' =
                 [lastEnable EXCEPT ![k.core] =
                    [defined |-> TRUE,
                     publicKey |-> EnableOutcome(kept).publicKey,
                     privateKey |-> EnableOutcome(kept).privateKey]]
            /\ UNCHANGED nEnableBad
       ELSE /\ nEnableBad' = [nEnableBad EXCEPT ![k.core] = @ + 1]
            /\ UNCHANGED <<nEnableOk, ensured, lastEnable>>
  /\ UNCHANGED <<Instance, nOps, nEnsure>>

\* Mutant: the keys are kept in a field that all instances share.
EnsureAccountResolvesShared(s, r) ==
  LET k == calls[s] IN
  /\ k.pc = "awaitBackend"
  /\ k.bcall.method = "ensureAccount"
  /\ keys' = [c \in Cores |-> r]
  /\ Settle(s, ResolvedKeys(r), EnableOutcome(r))
  /\ IF r.defined
       THEN /\ nEnableOk' = [nEnableOk EXCEPT ![k.core] = @ + 1]
            /\ ensured' = [ensured EXCEPT ![k.core] = TRUE]
            /\ lastEnable' = [lastEnable EXCEPT ![k.core] = r]
            /\ UNCHANGED nEnableBad
       ELSE /\ nEnableBad' = [nEnableBad EXCEPT ![k.core] = @ + 1]
            /\ UNCHANGED <<nEnableOk, ensured, lastEnable>>
  /\ UNCHANGED <<Instance, nOps, nEnsure>>

\* ensureAccount resolves to r: `this._keys = keys`, then the return.
EnsureAccountResolves(s, r) ==
  LET k == calls[s] IN
  /\ k.pc = "awaitBackend"
  /\ k.bcall.method = "ensureAccount"
  /\ keys' = [keys EXCEPT ![k.core] = r]
  /\ Settle(s, ResolvedKeys(r), EnableOutcome(r))
  /\ IF r.defined
       THEN /\ nEnableOk' = [nEnableOk EXCEPT ![k.core] = @ + 1]
            /\ ensured' = [ensured EXCEPT ![k.core] = TRUE]
            /\ lastEnable' =
                 [lastEnable EXCEPT ![k.core] =
                    [defined |-> TRUE,
                     publicKey |-> EnableOutcome(r).publicKey,
                     privateKey |-> EnableOutcome(r).privateKey]]
            /\ UNCHANGED nEnableBad
       ELSE /\ nEnableBad' = [nEnableBad EXCEPT ![k.core] = @ + 1]
            /\ UNCHANGED <<nEnableOk, ensured, lastEnable>>
  /\ UNCHANGED <<Instance, nOps, nEnsure>>

\* Mutant: the result echoes the amount next to the hash.
TransactionResolvesEchoAmount(s, h) ==
  LET k == calls[s] IN
  /\ k.pc = "awaitBackend"
  /\ k.op \in TransactionOps
  /\ Settle(s, ResolvedHash(h), [ResolvedHash(h) EXCEPT !.amount = k.amount])
  /\ UNCHANGED <<Instance, keys, nOps, Ghosts>>

\* confidentialDeposit / confidentialTransfer / withdraw resolves to {hash}.
TransactionResolves(s, h) ==
  LET k == calls[s] IN
  /\ k.pc = "awaitBackend"
  /\ k.op \in TransactionOps
  /\ Settle(s, ResolvedHash(h), ResolvedHash(h))
  /\ UNCHANGED <<Instance, keys, nOps, Ghosts>>

\* Mutant: the Backend's amount is returned as it came, without BigInt().
BalanceResolvesRaw(s, a) ==
  LET k == calls[s] IN
  /\ k.pc = "awaitBackend"
  /\ k.op \in BalanceOps
  /\ Settle(s, ResolvedAmount(a), ResolvedAmount(a))
  /\ UNCHANGED <<Instance, keys, nOps, Ghosts>>

\* getConfidentialBalance resolves to {amount}, getPublicBalance to amount.
BalanceResolves(s, a) ==
  LET k == calls[s] IN
  /\ k.pc = "awaitBackend"
  /\ k.op \in BalanceOps
  /\ Settle(s, ResolvedAmount(a), ResolvedAmount(BigInt(a)))
  /\ UNCHANGED <<Instance, keys, nOps, Ghosts>>

\* Mutant: the Backend's error is caught and replaced by a generic one.
BackendRejectsWrapped(s, e) ==
  LET k == calls[s] IN
  /\ k.pc = "awaitBackend"
  /\ Settle(s, Rejected(e), Rejected("Error"))
  /\ nEnableBad' = IF k.op = "enableConfidentiality"
                     THEN [nEnableBad EXCEPT ![k.core] = @ + 1]
                     ELSE nEnableBad
  /\ UNCHANGED <<Instance, keys, nOps, nEnsure, nEnableOk, ensured, lastEnable>>

\* The Backend call rejects with e: the awaiting method rejects with it.
BackendRejects(s, e) ==
  LET k == calls[s] IN
  /\ k.pc = "awaitBackend"
  /\ Settle(s, Rejected(e), Rejected(e))
  /\ nEnableBad' = IF k.op = "enableConfidentiality"
                     THEN [nEnableBad EXCEPT ![k.core] = @ + 1]
                     ELSE nEnableBad
  /\ UNCHANGED <<Instance, keys, nOps, nEnsure, nEnableOk, ensured, lastEnable>>

\* ------------------------------------------------------- the specification
Next ==
  \/ \E s \in Slots, c \in Cores : enableConfidentiality(s, c)
  \/ \E s \in Slots, c \in Cores, t \in Tokens, a \in Amounts :
       depositConfidential(s, c, t, a)
  \/ \E s \in Slots, c \in Cores, r \in Recipients, t \in Tokens, a \in Amounts :
       transferConfidential(s, c, r, t, a)
  \/ \E s \in Slots, c \in Cores, t \in Tokens, a \in Amounts :
       withdrawConfidential(s, c, t, a)
  \/ \E s \in Slots, c \in Cores, t \in Tokens : getConfidentialBalance(s, c, t)
  \/ \E s \in Slots, c \in Cores, t \in Tokens : getPublicBalance(s, c, t)
  \/ \E s \in Slots, c \in Cores : getFee(s, c)
  \/ \E s \in Slots : AfterWallet(s)
  \/ \E s \in Slots : AfterAddress(s)
  \/ \E s \in Slots, r \in EnsureResults : EnsureAccountResolves(s, r)
  \/ \E s \in Slots, h \in Hashes : TransactionResolves(s, h)
  \/ \E s \in Slots, a \in BackendAmounts : BalanceResolves(s, a)
  \/ \E s \in Slots, e \in BackendErrors : BackendRejects(s, e)

Spec == Init /\ [][Next]_vars

\* Two instances, over two accounts or over one, with one value of each
\* argument and of each Backend answer other than ensureAccount's.
InitTwo == Constructed(Cores) /\ recording = FALSE

NextTwo ==
  \/ \E s \in Slots, c \in Cores : enableConfidentiality(s, c)
  \/ \E s \in Slots, c \in Cores :
       transferConfidential(s, c, "0xR1", "0xAAA",
                            [rep |-> "number", hi |-> 0, lo |-> 100])
  \/ \E s \in Slots, c \in Cores : getConfidentialBalance(s, c, "0xAAA")
  \/ \E s \in Slots : AfterWallet(s)
  \/ \E s \in Slots : AfterAddress(s)
  \/ \E s \in Slots, r \in EnsureResults : EnsureAccountResolves(s, r)
  \/ \E s \in Slots : TransactionResolves(s, "0xdeadbeef")
  \/ \E s \in Slots :
       BalanceResolves(s, [rep |-> "string", hi |-> 0, lo |-> 100])
  \/ \E s \in Slots : BackendRejects(s, "BackendFailure1")

SpecTwo == InitTwo /\ [][NextTwo]_vars

\* One instance whose calls overlap, with the history of each invocation
\* kept, and one value of each argument and of each Backend answer other
\* than ensureAccount's.
InitRace == Constructed({"A"}) /\ recording = TRUE

NextRace ==
  \/ \E s \in Slots : enableConfidentiality(s, "A")
  \/ \E s \in Slots :
       transferConfidential(s, "A", "0xR1", "0xAAA",
                            [rep |-> "number", hi |-> 0, lo |-> 100])
  \/ \E s \in Slots : getConfidentialBalance(s, "A", "0xAAA")
  \/ \E s \in Slots : getPublicBalance(s, "A", "0xAAA")
  \/ \E s \in Slots : AfterWallet(s)
  \/ \E s \in Slots : AfterAddress(s)
  \/ \E s \in Slots, r \in EnsureResults : EnsureAccountResolves(s, r)
  \/ \E s \in Slots : TransactionResolves(s, "0xdeadbeef")
  \/ \E s \in Slots :
       BalanceResolves(s, [rep |-> "string", hi |-> 0, lo |-> 100])
  \/ \E s \in Slots : BackendRejects(s, "BackendFailure1")

SpecRace == InitRace /\ [][NextRace]_vars

\* The methods the class defines, and the methods its type declarations
\* (types/index.d.ts) and README promise.
ImplementedMethods ==
  {"enableConfidentiality", "depositConfidential", "transferConfidential",
   "withdrawConfidential", "getConfidentialBalance", "getPublicBalance",
   "getFee"}
DeclaredMethods ==
  {"enableConfidentiality", "depositConfidential", "transferConfidential",
   "withdrawConfidential", "getConfidentialBalance",
   "quoteTransferConfidential"}

\* The caller supplies a provider descriptor to an account that had none,
\* after the instances over it were constructed.
SetAccountProvider(c, d) ==
  /\ c \in live
  /\ acctProvider[c] = "none"
  /\ d \in ProviderDescriptors \ {"none"}
  /\ acctProvider' = [x \in Cores |->
                        IF AccountOf(x) = AccountOf(c) THEN d ELSE acctProvider[x]]
  /\ UNCHANGED <<live, shared, acctKind, provider, keys, calls, nOps, Ghosts,
                 recording>>

\* The caller invokes a declared method m that the class does not define:
\* `instance.m(...)` throws "m is not a function".
InvokeDeclared(s, c, m) ==
  /\ CanInvoke(s, c)
  /\ m \in DeclaredMethods \ ImplementedMethods
  /\ Start(s, [Invoked(m, c) EXCEPT
                 !.pc = "done",
                 !.out = [NoOutcome EXCEPT !.status = "thrown",
                                           !.error = "TypeError"]])

\* One instance with its caller's other moves: a provider supplied late and
\* calls through the declared interface.
NextCaller ==
  \/ \E s \in Slots, c \in Cores : enableConfidentiality(s, c)
  \/ \E s \in Slots, c \in Cores :
       depositConfidential(s, c, "0xAAA", [rep |-> "number", hi |-> 0, lo |-> 100])
  \/ \E s \in Slots, c \in Cores : getFee(s, c)
  \/ \E s \in Slots : AfterWallet(s)
  \/ \E s \in Slots, r \in EnsureResults : EnsureAccountResolves(s, r)
  \/ \E s \in Slots : TransactionResolves(s, "0xdeadbeef")
  \/ \E s \in Slots : BackendRejects(s, "BackendFailure1")
  \/ \E c \in Cores, d \in ProviderDescriptors : SetAccountProvider(c, d)
  \/ \E s \in Slots, c \in Cores, m \in DeclaredMethods : InvokeDeclared(s, c, m)

SpecCaller == Init /\ [][NextCaller]_vars

\* ------------------------------------------------------------------ claims
ConfidentialBackendMethods ==
  {"confidentialDeposit", "confidentialTransfer", "withdraw",
   "getConfidentialBalance"}

\* C1: on a Signing account on which no enableConfidentiality has resolved,
\* every deposit / transfer / withdraw / confidential-balance call has
\* rejected with NotEnabled and has called no Backend method; and every
\* Backend call of those four methods is issued on an instance on which an
\* ensureAccount has resolved before.
C1_GatedUntilEnabled ==
  \A s \in Slots :
    LET k == calls[s] IN
    /\ (k.op \in GatedOps /\ acctKind[k.core] = "Signing"
          /\ nEnableOk[k.core] = 0)
         => (k.pc = "done" /\ k.out = Rejected("NotEnabled")
               /\ k.nBackend = 0 /\ k.bcall = NoCall)
    /\ k.bcall.method \in ConfidentialBackendMethods => ensured[k.core]

\* C1 witness: a transfer was refused with NotEnabled before the enable, and
\* a deposit reached the Backend after it.
C1_Witness ==
  \E s, t \in Slots :
    /\ calls[s].op = "transferConfidential"
    /\ calls[s].out = Rejected("NotEnabled")
    /\ acctKind[calls[s].core] = "Signing"
    /\ calls[t].core = calls[s].core
    /\ calls[t].bcall.method = "confidentialDeposit"

\* C2: whenever getConfidentialBalance calls the Backend, it passes the
\* private key that the latest resolved enableConfidentiality returned,
\* the account's address and the requested token.
C2_BalanceUsesReturnedKey ==
  [][\A s \in Slots :
       (calls[s].op = "getConfidentialBalance"
          /\ calls[s].pc = "awaitAddress" /\ calls'[s].pc = "awaitBackend")
       => /\ lastEnable[calls[s].core].defined
          /\ calls'[s].bcall =
               [NoCall EXCEPT !.method = "getConfidentialBalance",
                              !.address = Address(AccountOf(calls[s].core)),
                              !.privateKey = lastEnable[calls[s].core].privateKey,
                              !.token = calls[s].token]]_vars

\* C2 witness: after enables that returned sk1 and then sk2, a balance query
\* is at the Backend with sk2.
C2_Witness ==
  \E s, t \in Slots :
    /\ calls[t].op = "enableConfidentiality"
    /\ calls[t].out = ResolvedKeys(KeyPair("2"))
    /\ nEnableOk[calls[t].core] = 2
    /\ calls[s].core = calls[t].core
    /\ calls[s].pc = "awaitBackend"
    /\ calls[s].bcall.method = "getConfidentialBalance"
    /\ calls[s].bcall.privateKey = "sk2"

\* C3 (as claimed): every enable / deposit / transfer / withdraw on a
\* ReadOnly account fails with UnsupportedOperation and calls no Backend
\* method.
C3_ReadOnlyUnsupported ==
  \A s \in Slots :
    LET k == calls[s] IN
    (k.op \in SigningOps /\ acctKind[k.core] = "ReadOnly")
      => /\ k.nBackend = 0
         /\ k.pc = "done" => k.out = Rejected("UnsupportedOperation")

\* C4: getPublicBalance and getFee are not gated: getFee resolves at once;
\* getPublicBalance never fails with NotEnabled, NotConnected or
\* UnsupportedOperation, calls Backend.getPublicBalance(address, token), and
\* resolves to the integer the Backend answered whenever that call resolves.
C4_PublicQueriesNotGated ==
  \A s \in Slots :
    LET k == calls[s] IN
    /\ k.op = "getFee" => (k.pc = "done" /\ k.out.status = "resolved")
    /\ k.op = "getPublicBalance" =>
         /\ k.pc \in {"awaitAddress", "awaitBackend", "done"}
         /\ k.out.error \notin {"NotEnabled", "NotConnected", "UnsupportedOperation"}
         /\ k.pc \in {"awaitBackend", "done"} =>
              k.bcall = [NoCall EXCEPT !.method = "getPublicBalance",
                                       !.address = Address(AccountOf(k.core)),
                                       !.token = k.token]
         /\ (k.pc = "done" /\ k.bret.status = "resolved") =>
              /\ k.out.status = "resolved"
              /\ k.out.amount.rep = "bigint"
              /\ k.out.amount.hi = k.bret.amount.hi
              /\ k.out.amount.lo = k.bret.amount.lo

\* C4 witness: on a ReadOnly account without provider and without keys,
\* getPublicBalance resolved to the Backend's 2^53 + 1 and getFee resolved.
C4_Witness ==
  \E s, t \in Slots :
    /\ calls[s].op = "getPublicBalance"
    /\ acctKind[calls[s].core] = "ReadOnly"
    /\ provider[calls[s].core] = "none"
    /\ ~keys[calls[s].core].defined
    /\ calls[s].out = ResolvedAmount([rep |-> "bigint", hi |-> 1, lo |-> 1])
    /\ calls[t].op = "getFee"
    /\ calls[t].core = calls[s].core
    /\ calls[t].out.status = "resolved"

PendingEnsure(c) ==
  Cardinality({s \in Slots : /\ calls[s].core = c
                             /\ calls[s].pc = "awaitBackend"
                             /\ calls[s].bcall.method = "ensureAccount"})

\* C5: enableConfidentiality is not idempotent: every enable that got its
\* signer issued one ensureAccount call of its own (n resolved enables with
\* none failed or pending means n ensureAccount calls), each resolved enable
\* returned the result of its own ensureAccount call, and as long as no
\* enable failed after its ensureAccount the stored keys are those of the
\* latest resolved enable.
C5_EnableNotIdempotent ==
  /\ \A c \in Cores :
       /\ nEnsure[c] = nEnableOk[c] + nEnableBad[c] + PendingEnsure(c)
       /\ nEnableBad[c] = 0 => keys[c] = lastEnable[c]
  /\ \A s \in Slots :
       LET k == calls[s] IN
       (k.op = "enableConfidentiality" /\ k.pc = "done"
          /\ k.out.status = "resolved")
         => /\ k.nBackend = 1
            /\ k.bret.status = "resolved"
            /\ k.out.publicKey = k.bret.publicKey
            /\ k.out.privateKey = k.bret.privateKey

\* C5 witness: two enables resolved after two ensureAccount calls, the first
\* returned key pair 1, and key pair 2 is stored.
C5_Witness ==
  \E s \in Slots :
    /\ calls[s].op = "enableConfidentiality"
    /\ calls[s].out = ResolvedKeys(KeyPair("1"))
    /\ nEnableOk[calls[s].core] = 2
    /\ nEnsure[calls[s].core] = 2
    /\ nEnableBad[calls[s].core] = 0
    /\ keys[calls[s].core] = KeyPair("2")

\* C6: on an instance constructed over a Signing account without provider,
\* enableConfidentiality rejects with NotConnected, ensureAccount is never
\* called and the stored keys stay unset.
C6_EnableNotConnected ==
  \A c \in live :
    (acctKind[c] = "Signing" /\ provider[c] = "none")
      => /\ keys[c] = Undefined
         /\ nEnsure[c] = 0
         /\ \A s \in Slots :
              (calls[s].op = "enableConfidentiality" /\ calls[s].core = c)
                => /\ calls[s].nBackend = 0
                   /\ calls[s].pc \in {"awaitWallet", "done"}
                   /\ calls[s].pc = "done"
                        => calls[s].out = Rejected("NotConnected")

\* C6 witness: such an enable has rejected with NotConnected.
C6_Witness ==
  \E s \in Slots :
    /\ calls[s].op = "enableConfidentiality"
    /\ acctKind[calls[s].core] = "Signing"
    /\ acctProvider[calls[s].core] = "none"
    /\ calls[s].out = Rejected("NotConnected")

\* C7 (as claimed): a step in which an enableConfidentiality call ends in
\* rejection leaves the stored keys as they were.
C7_RejectedEnableKeepsKeys ==
  [][\A s \in Slots :
       (calls[s].op = "enableConfidentiality" /\ calls[s].pc # "done"
          /\ calls'[s].pc = "done" /\ calls'[s].out.status = "rejected")
       => keys' = keys]_vars

C9_BackendErrorPropagates ==
  \A s \in Slots :
    LET k == calls[s] IN
    /\ k.nBackend <= 1
    /\ k.bret.status = "rejected" =>
         (k.pc = "done" /\ k.nBackend = 1 /\ k.out = Rejected(k.bret.error))

\* C9 witness: a transfer whose Backend call rejected with BackendFailure2.
C9_Witness ==
  \E s \in Slots :
    /\ calls[s].op = "transferConfidential"
    /\ calls[s].bret = Rejected("BackendFailure2")
    /\ calls[s].out = Rejected("BackendFailure2")

BackendMethodOf(op) ==
  IF op = "depositConfidential" THEN "confidentialDeposit"
  ELSE IF op = "transferConfidential" THEN "confidentialTransfer"
  ELSE "withdraw"

\* C10: the Backend call of a deposit, transfer or withdraw carries the
\* amount, token and recipient exactly as the caller passed them (the same
\* type and the same integer, also above 2^53).
C10_AmountPassedThrough ==
  \A s \in Slots :
    LET k == calls[s] IN
    (k.op \in TransactionOps /\ k.nBackend = 1)
      => /\ k.bcall.method = BackendMethodOf(k.op)
         /\ k.bcall.amount = k.amount
         /\ k.bcall.token = k.token
         /\ k.bcall.recipient = k.recipient

\* C10 witness: a transfer of the bigint 2^53 + 1 is at the Backend.
C10_Witness ==
  \E s \in Slots :
    /\ calls[s].op = "transferConfidential"
    /\ calls[s].amount = [rep |-> "bigint", hi |-> 1, lo |-> 1]
    /\ calls[s].bcall.method = "confidentialTransfer"
    /\ calls[s].bcall.amount = [rep |-> "bigint", hi |-> 1, lo |-> 1]
    /\ calls[s].bcall.recipient = "0xR1"
    /\ calls[s].bcall.token = "0xBBB"

\* C11: the result of transferConfidential does not depend on the amount:
\* any two resolved transfers for which the Backend answered the same hash
\* have identical results, whatever their amounts, and a transfer's result
\* holds a hash and nothing else.
C11_TransferResultHidesAmount ==
  \A s, t \in Slots :
    LET k == calls[s]
        j == calls[t]
    IN
    /\ (k.op = "transferConfidential" /\ k.out.status = "resolved")
         => k.out = ResolvedHash(k.out.hash)
    /\ (/\ k.op = "transferConfidential" /\ k.out.status = "resolved"
        /\ j.op = "transferConfidential" /\ j.out.status = "resolved"
        /\ k.bret.hash = j.bret.hash)
         => k.out = j.out

\* C11 witness: two transfers of different amounts, answered with the same
\* hash, have resolved.
C11_Witness ==
  \E s, t \in Slots :
    /\ calls[s].op = "transferConfidential"
    /\ calls[t].op = "transferConfidential"
    /\ calls[s].amount # calls[t].amount
    /\ calls[s].out.status = "resolved"
    /\ calls[t].out.status = "resolved"
    /\ calls[s].bret.hash = calls[t].bret.hash

\* C12: a resolved deposit, transfer or withdraw resolves to exactly
\* {hash: h} with h the hash of the Backend's result; a resolved
\* getConfidentialBalance resolves to {amount: a} with a the bigint of the
\* integer in the Backend's result.
C12_ResultShapes ==
  \A s \in Slots :
    LET k == calls[s] IN
    /\ (k.op \in TransactionOps /\ k.out.status = "resolved")
         => /\ k.bret.status = "resolved"
            /\ k.bret.hash \in Hashes
            /\ k.out = ResolvedHash(k.bret.hash)
    /\ (k.op = "getConfidentialBalance" /\ k.out.status = "resolved")
         => /\ k.bret.status = "resolved"
            /\ k.out.amount.rep = "bigint"
            /\ k.out.amount.hi = k.bret.amount.hi
            /\ k.out.amount.lo = k.bret.amount.lo
            /\ k.out.hash = "-"

\* C12 witness: a deposit resolved to the Backend's hash and a confidential
\* balance query to the bigint 100 of the Backend's "100".
C12_Witness ==
  \E s, t \in Slots :
    /\ calls[s].op = "depositConfidential"
    /\ calls[s].bret.hash = "0xfeedface"
    /\ calls[s].out = ResolvedHash("0xfeedface")
    /\ calls[t].op = "getConfidentialBalance"
    /\ calls[t].bret.amount = [rep |-> "string", hi |-> 0, lo |-> 100]
    /\ calls[t].out = ResolvedAmount([rep |-> "bigint", hi |-> 0, lo |-> 100])

\* C13: instances share no state: the stored keys of an instance change
\* only in the step in which an ensureAccount call of that same instance
\* resolves; a gated call on an instance on which no enable has resolved
\* rejects with NotEnabled, whatever happened on the other instance; and a
\* balance query hands the Backend the private key stored on its own
\* instance, with the address of its own account.
C13_InstancesIndependent ==
  [][\A c \in Cores :
       /\ keys'[c] # keys[c] =>
            \E s \in Slots :
              /\ calls[s].core = c
              /\ calls[s].pc = "awaitBackend"
              /\ calls[s].bcall.method = "ensureAccount"
              /\ calls'[s].pc = "done"
       /\ \A s \in Slots :
            /\ (/\ calls'[s] # calls[s]
                /\ calls[s].pc \in {"idle", "done"}
                /\ calls'[s].core = c
                /\ calls'[s].op \in GatedOps
                /\ nEnableOk[c] = 0)
                 => calls'[s].out = Rejected("NotEnabled")
            /\ (/\ calls[s].core = c
                /\ calls[s].op = "getConfidentialBalance"
                /\ calls[s].pc = "awaitAddress"
                /\ calls'[s].pc = "awaitBackend")
                 => /\ calls'[s].bcall.privateKey = keys[c].privateKey
                    /\ calls'[s].bcall.privateKey = lastEnable[c].privateKey
                    /\ calls'[s].bcall.address = Address(AccountOf(c))]_vars

\* C13 witness: two instances over one account hold different keys, and a
\* balance query on B is at the Backend with B's private key.
C13_Witness ==
  /\ shared
  /\ keys["A"] = KeyPair("1")
  /\ keys["B"] = KeyPair("2")
  /\ \E s \in Slots :
       /\ calls[s].core = "B"
       /\ calls[s].pc = "awaitBackend"
       /\ calls[s].bcall.method = "getConfidentialBalance"
       /\ calls[s].bcall.privateKey = "sk2"

\* C14 (as claimed): a signing method invoked on a Signing account that
\* exposes a provider descriptor at that time does not fail with
\* NotConnected, also when the descriptor was supplied after construction.
C14_ProviderOnDemand ==
  [][\A s \in Slots :
       (/\ calls'[s] # calls[s]
        /\ calls[s].pc \in {"idle", "done"}
        /\ calls'[s].op \in SigningOps
        /\ acctKind[calls'[s].core] = "Signing"
        /\ acctProvider[calls'[s].core] # "none")
       => /\ calls'[s].walletError # "NotConnected"
          /\ calls'[s].out.error # "NotConnected"]_vars

\* C15 (as claimed): the methods of the instance are the declared ones:
\* no call through the declared interface finds its method missing, and no
\* method outside the declared interface is there to be called.
C15_OneShape ==
  \A s \in Slots :
    /\ calls[s].op \in DeclaredMethods => calls[s].out.status # "thrown"
    /\ calls[s].op \in ImplementedMethods => calls[s].op \in DeclaredMethods

\* C16: getFee is a placeholder: whatever the state of the instance, the
\* step that invokes it resolves it to 0n at once, without a Backend call
\* and without changing anything of the instance.
C16_FeeIsZero ==
  [][\A s \in Slots :
       (/\ calls'[s] # calls[s]
        /\ calls[s].pc \in {"idle", "done"}
        /\ calls'[s].op = "getFee")
       => /\ calls'[s].pc = "done"
          /\ calls'[s].out = ResolvedAmount([rep |-> "bigint", hi |-> 0, lo |-> 0])
          /\ calls'[s].nBackend = 0
          /\ calls'[s].bcall = NoCall
          /\ UNCHANGED <<keys, provider, acctKind, acctProvider, nEnsure>>
          /\ \A t \in Slots \ {s} : calls'[t] = calls[t]]_vars

\* C16 witness: getFee resolved to 0n on a ReadOnly account without provider
\* while its keys are unset.
C16_Witness ==
  \E s \in Slots :
    /\ calls[s].op = "getFee"
    /\ calls[s].out = ResolvedAmount([rep |-> "bigint", hi |-> 0, lo |-> 0])
    /\ acctKind[calls[s].core] = "ReadOnly"
    /\ provider[calls[s].core] = "none"
    /\ ~keys[calls[s].core].defined

\* C17: the signing key stays out of the instance: the stored keys are
\* always unset or a value ensureAccount resolved to; a signer is built only
\* inside enable / deposit / transfer / withdraw, from the account's key and
\* the instance's provider binding, and is the signer of that call's own
\* Backend call; getConfidentialBalance, getPublicBalance and getFee never
\* read the signing key and pass no signer.
C17_SigningKeyNotKept ==
  /\ keys \in [Cores -> EnsureResults]
  /\ \A s \in Slots :
       LET k == calls[s] IN
       /\ k.op \in {"getConfidentialBalance", "getPublicBalance", "getFee"}
            => (k.wallet = NoWallet /\ k.walletError = "-"
                  /\ k.bcall.signer = NoWallet)
       /\ k.wallet # NoWallet
            => /\ k.op \in SigningOps
               /\ k.wallet = [key |-> ToHex(SigningKeyBytes(AccountOf(k.core))),
                              provider |-> provider[k.core]]
       /\ (k.op \in SigningOps /\ k.nBackend = 1) => k.bcall.signer = k.wallet

\* C17 witness: a deposit is at the Backend with the signer built from the
\* account's key bytes 0x0a 0xff, and a balance query that built none is at
\* the Backend too.
C17_Witness ==
  \E s, t \in Slots :
    /\ calls[s].op = "depositConfidential"
    /\ calls[s].pc = "awaitBackend"
    /\ calls[s].bcall.signer.key = <<"0", "a", "f", "f">>
    /\ calls[t].op = "getConfidentialBalance"
    /\ calls[t].pc = "awaitBackend"
    /\ calls[t].wallet = NoWallet

\* C18 (as claimed): the stored keys change only in the step in which an
\* enableConfidentiality call of that instance completes successfully; no
\* other step, of any other method or outcome, changes them.
C18_KeysChangeOnlyOnEnableSuccess ==
  [][\A c \in Cores :
       keys'[c] # keys[c]
       => \E s \in Slots :
            /\ calls[s].op = "enableConfidentiality"
            /\ calls[s].core = c
            /\ calls[s].pc # "done"
            /\ calls'[s].pc = "done"
            /\ calls'[s].out.status = "resolved"]_vars

\* C19 (as claimed): enablement is monotonic: stored keys that are set are
\* never unset by a later step.
C19_EnablementMonotonic ==
  [][\A c \in Cores : keys[c].defined => keys'[c].defined]_vars

\* C20: stored keys set implies that the instance has a provider binding, and
\* a deposit, transfer or withdraw that passed the gate never meets the
\* NotConnected error.
C20_EnabledImpliesConnected ==
  /\ \A c \in Cores : keys[c].defined => provider[c] # "none"
  /\ \A s \in Slots :
       calls[s].op \in TransactionOps
       => /\ calls[s].walletError # "NotConnected"
          /\ calls[s].out.error # "NotConnected"

\* C20 witness: on an instance with keys set and a provider binding a
\* deposit got its signer and resolved.
C20_Witness ==
  \E s \in Slots :
    /\ calls[s].op = "depositConfidential"
    /\ calls[s].pc = "done"
    /\ calls[s].out.status = "resolved"
    /\ calls[s].wallet # NoWallet
    /\ keys[calls[s].core].defined
    /\ provider[calls[s].core] # "none"

\* C21: the enablement check comes first: a deposit, transfer or withdraw
\* invoked on an instance whose keys are unset is rejected in that step with
\* NotEnabled, whatever the provider binding and the account variant, before
\* the signing key is read and without a Backend call.
C21_GateBeforeSigner ==
  [][\A s \in Slots :
       (/\ calls'[s] # calls[s]
        /\ calls[s].pc \in {"idle", "done"}
        /\ calls'[s].op \in TransactionOps
        /\ ~keys[calls'[s].core].defined)
       => /\ calls'[s].pc = "done"
          /\ calls'[s].out = Rejected("NotEnabled")
          /\ calls'[s].wallet = NoWallet
          /\ calls'[s].walletError = "-"
          /\ calls'[s].nBackend = 0]_vars

\* C21 witness: a withdraw was rejected with NotEnabled on an instance over
\* a ReadOnly account and without provider binding, with no signer built.
C21_Witness ==
  \E s \in Slots :
    /\ calls[s].op = "withdrawConfidential"
    /\ calls[s].out = Rejected("NotEnabled")
    /\ calls[s].wallet = NoWallet
    /\ acctKind[calls[s].core] = "ReadOnly"
    /\ provider[calls[s].core] = "none"

\* C22: the gate is evaluated once, at invocation: a deposit, transfer,
\* withdraw or confidential balance query invoked while the stored keys are
\* unset is rejected in that step with NotEnabled and without a Backend
\* call, whether or not an enable is pending; NotEnabled is answered at no
\* other moment; and a finished call changes no more (it is not taken up
\* again when an enable completes) until its slot is used for a new
\* invocation.
C22_GateAtInvocation ==
  [][\A s \in Slots :
       /\ (/\ calls'[s] # calls[s]
           /\ calls[s].pc \in {"idle", "done"}
           /\ calls'[s].op \in GatedOps
           /\ ~keys[calls'[s].core].defined)
          => /\ calls'[s].pc = "done"
             /\ calls'[s].out = Rejected("NotEnabled")
             /\ calls'[s].nBackend = 0
             /\ calls'[s].bcall = NoCall
       /\ (calls'[s] # calls[s] /\ calls'[s].out.error = "NotEnabled")
          => /\ calls[s].pc \in {"idle", "done"}
             /\ ~keys[calls'[s].core].defined
       /\ (calls'[s] # calls[s] /\ calls[s].pc = "done")
          => nOps' = nOps + 1]_vars

\* C22 witness: of two invocations, the transfer was made while the enable
\* was pending and was rejected with NotEnabled; the enable has succeeded
\* since, and the transfer is still rejected, without a Backend call.
C22_Witness ==
  \E s, t \in Slots :
    /\ nOps = 2
    /\ calls[s].op = "transferConfidential"
    /\ calls[s].raced
    /\ calls[s].out = Rejected("NotEnabled")
    /\ calls[s].nBackend = 0
    /\ calls[t].op = "enableConfidentiality"
    /\ calls[t].out.status = "resolved"
    /\ keys[calls[s].core].defined

\* C23: overlapping enables: in the step in which an enable's ensureAccount
\* resolves, the stored keys become that call's own ensureAccount result,
\* whichever enable was invoked first, and the caller of a resolved enable
\* receives the key pair of its own ensureAccount result; the stored keys
\* change in no other step, so after all enables have completed they are
\* those of the ensureAccount that resolved last.
C23_LastResolvedWins ==
  [][/\ \A s \in Slots :
          (/\ calls[s].op = "enableConfidentiality"
           /\ calls[s].pc = "awaitBackend"
           /\ calls'[s].pc = "done"
           /\ calls'[s].bret.status = "resolved")
          => /\ keys'[calls[s].core].publicKey = calls'[s].bret.publicKey
             /\ keys'[calls[s].core].privateKey = calls'[s].bret.privateKey
             /\ calls'[s].out.status = "resolved"
                  => /\ calls'[s].out.publicKey = calls'[s].bret.publicKey
                     /\ calls'[s].out.privateKey = calls'[s].bret.privateKey
     /\ keys' # keys
          => \E s \in Slots :
               /\ calls[s].op = "enableConfidentiality"
               /\ calls[s].pc = "awaitBackend"
               /\ calls'[s].pc = "done"
               /\ calls'[s].bret.status = "resolved"]_vars

\* C23 witness: of two overlapping enables the one invoked first received
\* key pair 1 and the one invoked later received key pair 2; the first one's
\* ensureAccount resolved last, so key pair 1 is stored, not the pair that
\* the later caller holds.
C23_Witness ==
  \E s, t \in Slots :
    /\ nOps = 2
    /\ calls[s].op = "enableConfidentiality"
    /\ ~calls[s].raced
    /\ calls[s].out = ResolvedKeys(KeyPair("1"))
    /\ calls[t].op = "enableConfidentiality"
    /\ calls[t].raced
    /\ calls[t].out = ResolvedKeys(KeyPair("2"))
    /\ keys[calls[s].core] = KeyPair("1")

\* C24: getConfidentialBalance checks the gate in the step that invokes it,
\* before the address is awaited (keys unset: NotEnabled at once; keys set:
\* it awaits the address, no Backend call made yet), and reads the stored
\* private key after that await: in the step that calls the Backend the
\* stored keys are set and their private key, as stored at that moment, is
\* the one passed, so no Backend.getConfidentialBalance call ever carries
\* an unset private key.
C24_BalanceReadsKeyAfterAwait ==
  [][\A s \in Slots :
       /\ (/\ calls'[s] # calls[s]
           /\ calls[s].pc \in {"idle", "done"}
           /\ calls'[s].op = "getConfidentialBalance")
          => /\ calls'[s].bcall = NoCall
             /\ IF keys[calls'[s].core].defined
                  THEN calls'[s].pc = "awaitAddress"
                  ELSE /\ calls'[s].pc = "done"
                       /\ calls'[s].out = Rejected("NotEnabled")
       /\ (/\ calls[s].op = "getConfidentialBalance"
           /\ calls[s].pc = "awaitAddress"
           /\ calls'[s].pc = "awaitBackend")
          => /\ keys[calls[s].core].defined
             /\ calls'[s].bcall.privateKey = keys[calls[s].core].privateKey
             /\ calls'[s].bcall.privateKey \in {KeyPair("1").privateKey,
                                               KeyPair("2").privateKey}
       /\ (/\ calls[s].op = "getConfidentialBalance"
           /\ calls[s].pc = "awaitAddress"
           /\ calls'[s].pc # "awaitAddress")
          => (calls'[s].pc = "awaitBackend" <=> keys[calls[s].core].defined)]_vars

\* C24 witness: a balance query whose gate found private key sk1 is at the
\* Backend with sk2, the key that an enable completed in between stored.
C24_Witness ==
  \E s \in Slots :
    /\ calls[s].op = "getConfidentialBalance"
    /\ calls[s].pc = "awaitBackend"
    /\ calls[s].gate = "sk1"
    /\ calls[s].bcall.privateKey = "sk2"
    /\ keys[calls[s].core] = KeyPair("2")

\* C25: an instance over a ReadOnly account is never enabled: its stored
\* keys are unset in every reachable state, no ensureAccount and no
\* Backend.getConfidentialBalance call is ever made for it, each of its
\* getConfidentialBalance calls is rejected with NotEnabled, and its
\* getPublicBalance calls are never rejected by the gate, the provider check
\* or the account variant.
C25_ReadOnlyNeverEnabled ==
  \A c \in live :
    acctKind[c] = "ReadOnly"
    => /\ ~keys[c].defined
       /\ nEnsure[c] = 0
       /\ \A s \in Slots :
            (calls[s].op # "-" /\ calls[s].core = c)
            => /\ calls[s].bcall.method
                    \notin {"ensureAccount", "getConfidentialBalance"}
               /\ calls[s].op = "getConfidentialBalance"
                    => /\ calls[s].pc = "done"
                       /\ calls[s].out = Rejected("NotEnabled")
                       /\ calls[s].nBackend = 0
               /\ calls[s].op = "getPublicBalance"
                    => calls[s].out.error
                         \notin {"NotEnabled", "NotConnected", "TypeError"}

\* C25 witness: on an instance over a ReadOnly account with a provider
\* binding an enable was rejected when the signing key was read, the keys
\* are unset, and a getPublicBalance resolved.
C25_Witness ==
  \E s, t \in Slots :
    /\ acctKind[calls[s].core] = "ReadOnly"
    /\ calls[s].op = "enableConfidentiality"
    /\ calls[s].out = Rejected("TypeError")
    /\ calls[s].nBackend = 0
    /\ ~keys[calls[s].core].defined
    /\ calls[t].core = calls[s].core
    /\ calls[t].op = "getPublicBalance"
    /\ calls[t].out.status = "resolved"

====
